---- MODULE Spec2Model ----
(***************************************************************************)
(* Solar-panel monitoring backend: the telemetry model service            *)
(* (backend/app/services/model_service.py), its three ML endpoints         *)
(* (backend/app/api/telemetry.py), the offline training script             *)
(* (ml/solar_telemetry_model.py) and the record-by-id REST handlers.       *)
(*                                                                         *)
(* Numbers.  voltage, current, temperature are whole sensor units and      *)
(* power = voltage * current is whole watts.  Floating-point quantities    *)
(* are fixed-point thousandths ("milli"); values the code rounds with      *)
(* round(x, 2) are hundredths ("centi").                                   *)
(***************************************************************************)
EXTENDS Integers, Sequences, FiniteSets, TLC

VARIABLES
    ml_dir,      \* the files the training script left in ml/
    telemetry,   \* telemetry table: panel id -> rows in timestamp order
    clock,       \* the database/server time, in hours
    svc,         \* the module-level TelemetryModelService instance
    call,        \* the service-level call made by the last handler
    resp,        \* the HTTP response of the last telemetry request
    panels,             \* table panels: id -> row
    missions,           \* table missions: id -> row
    mission_images,     \* table mission_images: id -> row
    inspection_results, \* table inspection_results: id -> row
    image_seq,          \* number of mission_images ids handed out
    cv_weights,         \* whether a loadable best.pt exists on disk
    cv_service,         \* the module-level _cv_service singleton
    tmp_seq,            \* number of temporary files created so far
    tmp_files,          \* the temporary files that exist
    nreq,               \* number of REST requests served
    http,               \* the HTTP response of the last REST request
    cv_built,           \* number of CVModelService objects constructed
    cv_ref,             \* which of them _cv_service is bound to (0: None)
    threads,            \* request threads inside the CV service module
    cv_call,            \* the last call of a CVModelService method
    workers,            \* request threads inside GET /telemetry/predict
    completed_images    \* history: ids of the images that have belonged to a
                        \* mission while its status was COMPLETED

tvars == <<ml_dir, telemetry, clock, svc, call, resp, workers>>

db == <<panels, missions, mission_images, inspection_results>>

cvars == <<cv_built, cv_ref, threads, cv_call>>

\* what the model service and its handlers never touch
restvars == <<panels, missions, mission_images, inspection_results, image_seq,
              cv_weights, cv_service, tmp_seq, tmp_files, nreq, http,
              cv_built, cv_ref, threads, cv_call, completed_images>>

\* what a telemetry handler served from start to end leaves alone
avars == <<restvars, workers>>

vars == <<ml_dir, telemetry, clock, svc, call, resp, panels, missions,
          mission_images, inspection_results, image_seq, cv_weights,
          cv_service, tmp_seq, tmp_files, nreq, http, cv_built, cv_ref,
          threads, cv_call, workers, completed_images>>

-----------------------------------------------------------------------------
(* Program constants *)

WINDOW_SIZE == 20

\* mutant: the service slides a window one shorter than the training script's
short_sequence_length == WINDOW_SIZE - 1

sequence_length == 20

MinFitRecords == 100

MinRecords == 20

NextLimit == 20

(* Bounds of the model *)

MaxCreate == 2

StartClock == 100

TrainLen == 200

MaxRequests == 6

Panels == {"p1", "p2"}

\* rows each panel holds when the service starts: just under the two thresholds
InitLens == [p1 |-> 99, p2 |-> 19]

Limits == {20, 25, 100, 1000}

DirectLens == {19, 20, 21}

Hours == {1, 24, 168}

Thresholds == {110, 500}

SensorReadings == {<<10, 1, 22>>, <<13, 3, 30>>}

-----------------------------------------------------------------------------
(* Arithmetic helpers *)

Abs(x) == IF x < 0 THEN -x ELSE x

RECURSIVE SumRange(_, _, _)
SumRange(s, lo, hi) ==
    IF lo > hi THEN 0
    ELSE IF lo = hi THEN s[lo]
    ELSE LET mid == (lo + hi) \div 2
         IN  SumRange(s, lo, mid) + SumRange(s, mid + 1, hi)

SumSeq(s) == SumRange(s, 1, Len(s))

RECURSIVE MaxRange(_, _, _)
MaxRange(s, lo, hi) ==
    IF lo = hi THEN s[lo]
    ELSE LET mid == (lo + hi) \div 2
             a   == MaxRange(s, lo, mid)
             b   == MaxRange(s, mid + 1, hi)
         IN  IF a > b THEN a ELSE b

MaxSeq(s) == MaxRange(s, 1, Len(s))

RECURSIVE IsqrtIter(_, _, _)
IsqrtIter(lo, hi, v) ==
    IF lo >= hi THEN lo
    ELSE LET mid == (lo + hi + 1) \div 2
         IN  IF mid * mid <= v THEN IsqrtIter(mid, hi, v)
             ELSE IsqrtIter(lo, mid - 1, v)

Isqrt(v) == IsqrtIter(0, 40000, v)

\* round(x, 2) of a value held in thousandths: the result in hundredths,
\* ties to the even neighbour.
Round2(m) ==
    LET q == m \div 10
        r == m % 10
    IN  IF r < 5 THEN q
        ELSE IF r > 5 THEN q + 1
        ELSE IF q % 2 = 0 THEN q ELSE q + 1

\* round(total / n, 2) for a total held in hundredths
RoundAvg2(total, n) == Round2((total * 10) \div n)

-----------------------------------------------------------------------------
(* sklearn StandardScaler on one column *)

UnfittedScaler == [fitted |-> FALSE, mean |-> <<>>, scale |-> <<>>]

ColMean(xs) == (SumSeq(xs) * 1000) \div Len(xs)

ColScale(xs) ==
    LET mu == ColMean(xs)
        n  == Len(xs)
        sq == [k \in 1..n |-> ((xs[k] * 1000 - mu) * (xs[k] * 1000 - mu)) \div n]
        sd == Isqrt(SumSeq(sq))
    IN  IF sd = 0 THEN 1000 ELSE sd

\* StandardScaler.fit on a matrix given as a sequence of columns
ScalerFit(cols) ==
    [fitted |-> TRUE,
     mean   |-> [j \in 1..Len(cols) |-> ColMean(cols[j])],
     scale  |-> [j \in 1..Len(cols) |-> ColScale(cols[j])]]

\* StandardScaler.transform of one row of raw values: thousandths of a
\* standard deviation
ScalerTransform(sc, row) ==
    [j \in 1..Len(row) |-> ((row[j] * 1000 - sc.mean[j]) * 1000) \div sc.scale[j]]

\* StandardScaler.inverse_transform of one scaled value (column 1)
ScalerInverse(sc, z) == (z * sc.scale[1]) \div 1000 + sc.mean[1]

Features(d) == <<d.voltage, d.current, d.temperature>>

Power(d) == d.voltage * d.current

FeatureCols(data) ==
    <<[k \in 1..Len(data) |-> data[k].voltage],
      [k \in 1..Len(data) |-> data[k].current],
      [k \in 1..Len(data) |-> data[k].temperature]>>

PowerCol(data) == <<[k \in 1..Len(data) |-> Power(data[k])]>>

-----------------------------------------------------------------------------
(* ml/solar_telemetry_model.py: the offline training script *)

None == [some |-> FALSE, val |-> <<>>]

Some(v) == [some |-> TRUE, val |-> v]

NoModel == [loaded |-> FALSE, fit_windows |-> 0, fit_y |-> <<>>]

EmptyDir == [model_h5 |-> NoModel, scaler_X_joblib |-> UnfittedScaler,
             scaler_y_joblib |-> UnfittedScaler]

\* create_sequences of the training script: fits the module-level scaler on
\* df, scales df with it and slides the window
train_create_sequences(df, window_size) ==
    LET sc     == ScalerFit(FeatureCols(df))
        data   == [k \in 1..Len(df) |-> ScalerTransform(sc, Features(df[k]))]
        labels == [k \in 1..Len(df) |-> Power(df[k])]
        n      == Len(data) - window_size
    IN  [scaler |-> sc,
         X |-> [i \in 1..n |-> SubSeq(data, i, i + window_size - 1)],
         y |-> [i \in 1..n |-> labels[i + window_size]]]

\* create_sequences_transform: the same windows with the already fitted scaler
create_sequences_transform(sc, df, window_size) ==
    LET data   == [k \in 1..Len(df) |-> ScalerTransform(sc, Features(df[k]))]
        labels == [k \in 1..Len(df) |-> Power(df[k])]
        n      == Len(data) - window_size
    IN  [X |-> [i \in 1..n |-> SubSeq(data, i, i + window_size - 1)],
         y |-> [i \in 1..n |-> labels[i + window_size]]]

\* main() with --target power on a data frame sorted by timestamp: the files
\* it leaves in ml/.  The model is fitted on (X_train, y_train).
main(df) ==
    IF Len(df) < WINDOW_SIZE * 10 THEN EmptyDir
    ELSE LET train_idx == (8 * Len(df)) \div 10
             df_train  == SubSeq(df, 1, train_idx)
             tr        == train_create_sequences(df_train, WINDOW_SIZE)
             scaler_y  == ScalerFit(<<tr.y>>)
         IN  [model_h5 |-> [loaded |-> TRUE, fit_windows |-> Len(tr.X),
                            fit_y |-> tr.y],
              scaler_X_joblib |-> tr.scaler,
              scaler_y_joblib |-> scaler_y]

CsvRow(t) ==
    [voltage |-> 10 + (t % 4), current |-> 1 + ((t \div 2) % 3),
     temperature |-> 20 + (t % 7), timestamp |-> t]

Csv == [t \in 1..TrainLen |-> CsvRow(t)]

-----------------------------------------------------------------------------
(* backend/app/services/model_service.py: TelemetryModelService *)

\* _load_model: the model file of ml/ when it exists, else None
load_model(dir) == dir.model_h5

\* __init__
NewService(dir) ==
    [model |-> load_model(dir), scaler_X |-> UnfittedScaler,
     scaler_y |-> UnfittedScaler, is_fitted |-> FALSE]

\* keras model.predict on one window of scaled features: the network is
\* opaque, so it is a fixed deterministic read-out of the window
KerasPredict(m, w) ==
    (w[sequence_length][1] + 2 * w[sequence_length][2] + w[1][3]) \div 4

fit_scalers(s, telemetry_data) ==
    IF Len(telemetry_data) < MinFitRecords THEN [svc |-> s, ok |-> FALSE]
    ELSE [svc |-> [s EXCEPT !.scaler_X = ScalerFit(FeatureCols(telemetry_data)),
                            !.scaler_y = ScalerFit(PowerCol(telemetry_data)),
                            !.is_fitted = TRUE],
          ok |-> TRUE]

\* mutant: the slice starts one row late, scaled_features[i + 1:i + 1 + sequence_length]
WindowsShifted(scaled_features) ==
    [i \in 1..(Len(scaled_features) - sequence_length) |->
        SubSeq(scaled_features, i + 1, i + sequence_length)]

\* the windows create_sequences appends: one per i in
\* range(len(scaled_features) - sequence_length)
Windows(scaled_features) ==
    [i \in 1..(Len(scaled_features) - sequence_length) |->
        SubSeq(scaled_features, i, i + sequence_length - 1)]

\* create_sequences: raised is TRUE for the ValueError of unfitted scalers
create_sequences(s, telemetry_data) ==
    IF ~s.is_fitted THEN [raised |-> TRUE, out |-> None]
    ELSE IF Len(telemetry_data) < sequence_length
         THEN [raised |-> FALSE, out |-> None]
    ELSE LET scaled_features ==
                 [k \in 1..Len(telemetry_data) |->
                     ScalerTransform(s.scaler_X, Features(telemetry_data[k]))]
             sequences == Windows(scaled_features)
         IN  [raised |-> FALSE,
              out |-> IF Len(sequences) > 0 THEN Some(sequences) ELSE None]

\* mutant: the prediction is paired with the last record of its own window
TargetIdxInWindow(i) == i + sequence_length - 1

\* the index of the record paired with the i-th prediction
TargetIdx(i) == i + sequence_length

\* one entry of predict_power's results: pred is the inverse-scaled model
\* output in thousandths of a watt, d the record it is compared with
PredictionResult(pred, d) ==
    LET actual_power == Power(d)
        error        == Abs(actual_power * 1000 - pred)
        error_percent == (error * 100) \div actual_power
    IN  [timestamp       |-> d.timestamp,
         actual_power    |-> actual_power * 100,
         predicted_power |-> Round2(pred),
         error           |-> Round2(error),
         error_percent   |-> Round2(error_percent),
         voltage         |-> d.voltage,
         current         |-> d.current,
         temperature     |-> d.temperature]

\* mutant: the scalers are fitted before the model is checked
predict_power_fit_first(s, telemetry_data) ==
    LET f == IF s.is_fitted THEN [svc |-> s, ok |-> TRUE]
             ELSE fit_scalers(s, telemetry_data)
    IN  [svc |-> f.svc, sequences |-> None, out |-> None]

\* predict_power: the service after the call, the windows it built and the
\* optional list of results
predict_power(s, telemetry_data) ==
    IF ~s.model.loaded THEN [svc |-> s, sequences |-> None, out |-> None]
    ELSE LET f  == IF s.is_fitted THEN [svc |-> s, ok |-> TRUE]
                   ELSE fit_scalers(s, telemetry_data)
         IN  IF ~f.ok THEN [svc |-> f.svc, sequences |-> None, out |-> None]
             ELSE LET sequences == create_sequences(f.svc, telemetry_data).out
                  IN  IF ~sequences.some
                      THEN [svc |-> f.svc, sequences |-> None, out |-> None]
                      ELSE LET predictions ==
                                   [i \in 1..Len(sequences.val) |->
                                       ScalerInverse(f.svc.scaler_y,
                                           KerasPredict(f.svc.model, sequences.val[i]))]
                               results ==
                                   [i \in 1..Len(predictions) |->
                                       PredictionResult(predictions[i],
                                           telemetry_data[TargetIdx(i)])]
                           IN  [svc |-> f.svc, sequences |-> sequences,
                                out |-> Some(results)]

Anomaly(pred, threshold) ==
    [timestamp       |-> pred.timestamp,
     severity        |-> IF pred.error > threshold * 2 THEN "high" ELSE "medium",
     error           |-> pred.error,
     error_percent   |-> pred.error_percent,
     actual_power    |-> pred.actual_power,
     predicted_power |-> pred.predicted_power,
     details         |-> [voltage |-> pred.voltage, current |-> pred.current,
                          temperature |-> pred.temperature]]

\* mutant: an error equal to the threshold is flagged
IsAnomalyInclusive(pred, threshold) == pred.error >= threshold

IsAnomaly(pred, threshold) == pred.error > threshold

\* the loop of detect_anomalies: the flagged predictions, in order
FlagAnomalies(predictions, threshold) ==
    LET flagged == SelectSeq(predictions, LAMBDA pred : IsAnomaly(pred, threshold))
    IN  [i \in 1..Len(flagged) |-> Anomaly(flagged[i], threshold)]

\* detect_anomalies: always a list, empty when predict_power returned None
detect_anomalies(s, telemetry_data, threshold) ==
    LET p == predict_power(s, telemetry_data)
    IN  [svc |-> p.svc, sequences |-> p.sequences, predictions |-> p.out,
         out |-> IF ~p.out.some THEN <<>>
                 ELSE FlagAnomalies(p.out.val, threshold)]

predict_next(s, recent_telemetry) ==
    IF ~s.model.loaded THEN [svc |-> s, out |-> None]
    ELSE IF Len(recent_telemetry) < sequence_length THEN [svc |-> s, out |-> None]
    ELSE LET f == IF s.is_fitted THEN [svc |-> s, ok |-> TRUE]
                  ELSE fit_scalers(s, recent_telemetry)
         IN  IF ~f.ok THEN [svc |-> f.svc, out |-> None]
             ELSE LET n      == Len(recent_telemetry)
                      recent == SubSeq(recent_telemetry, n - sequence_length + 1, n)
                      scaled == [k \in 1..Len(recent) |->
                                    ScalerTransform(f.svc.scaler_X, Features(recent[k]))]
                      prediction ==
                          ScalerInverse(f.svc.scaler_y, KerasPredict(f.svc.model, scaled))
                  IN  [svc |-> f.svc,
                       out |-> Some([predicted_power  |-> Round2(prediction),
                                     based_on_records |-> sequence_length,
                                     latest_timestamp |-> recent[Len(recent)].timestamp])]

-----------------------------------------------------------------------------
(* backend/app/api/telemetry.py *)

Reverse(s) == [k \in 1..Len(s) |-> s[Len(s) - k + 1]]

Min(a, b) == IF a < b THEN a ELSE b

\* .order_by(Telemetry.timestamp.desc()).limit(limit).all()
QueryRecent(rows, limit) == SubSeq(Reverse(rows), 1, Min(limit, Len(rows)))

\* .filter(Telemetry.timestamp >= since).order_by(Telemetry.timestamp.asc())
QuerySince(rows, since) == SelectSeq(rows, LAMBDA r : r.timestamp >= since)

\* datetime.isoformat()
Isoformat(ts) == <<"iso", ts>>

ToDict(r) ==
    [voltage |-> r.voltage, current |-> r.current,
     temperature |-> r.temperature, timestamp |-> Isoformat(r.timestamp)]

ToDicts(records) == [k \in 1..Len(records) |-> ToDict(records[k])]

NoCall == [fn |-> "none", data |-> <<>>, threshold |-> 0, raised |-> FALSE,
           sequences |-> None, predictions |-> None, out |-> None]

NoResp == [op |-> "none", panel_id |-> "", status |-> 0, found |-> 0,
           body |-> <<>>]

\* mutant: the anomalies handler lets 19 records through
TooFewForAnomaliesLax(records) == Len(records) < MinRecords - 1

\* the len(records) < 20 checks of the three handlers
TooFewForPredict(records) == Len(records) < MinRecords

TooFewForAnomalies(records) == Len(records) < MinRecords

TooFewForNext(records) == Len(records) < MinRecords

\* mutant: the first ten are returned, predictions[:10]
FirstTen(predictions) == SubSeq(predictions, 1, Min(10, Len(predictions)))

\* predictions[-10:]
LastTen(predictions) ==
    SubSeq(predictions, IF Len(predictions) > 10 THEN Len(predictions) - 9 ELSE 1,
           Len(predictions))

PredictBody(predictions) ==
    LET errs == [i \in 1..Len(predictions) |-> predictions[i].error]
        pcts == [i \in 1..Len(predictions) |-> predictions[i].error_percent]
    IN  [total_predictions |-> Len(predictions),
         predictions |-> LastTen(predictions),
         summary |-> [avg_error |-> RoundAvg2(SumSeq(errs), Len(predictions)),
                      max_error |-> MaxSeq(errs),
                      avg_error_percent |-> RoundAvg2(SumSeq(pcts), Len(predictions))]]

\* POST /telemetry
create_telemetry(panel_id, reading) ==
    /\ clock < StartClock + MaxCreate
    /\ LET row == [voltage |-> reading[1], current |-> reading[2],
                   temperature |-> reading[3], timestamp |-> clock]
       IN  /\ telemetry' = [telemetry EXCEPT ![panel_id] = Append(@, row)]
           /\ resp' = [op |-> "create_telemetry", panel_id |-> panel_id,
                       status |-> 200, found |-> 0, body |-> row]
    /\ clock' = clock + 1
    /\ call' = NoCall
    /\ UNCHANGED <<ml_dir, svc>>
    /\ UNCHANGED avars

\* GET /telemetry/predict
predict_power_endpoint(panel_id, limit) ==
    LET found == QueryRecent(telemetry[panel_id], limit)
    IN  /\ IF TooFewForPredict(found)
           THEN /\ resp' = [op |-> "predict", panel_id |-> panel_id, status |-> 400,
                            found |-> Len(found), body |-> <<>>]
                /\ call' = NoCall
                /\ svc' = svc
           ELSE LET records == Reverse(found)
                    telemetry_data == ToDicts(records)
                    r == predict_power(svc, telemetry_data)
                IN  /\ svc' = r.svc
                    /\ call' = [fn |-> "predict_power", data |-> telemetry_data,
                                threshold |-> 0, raised |-> FALSE,
                                sequences |-> r.sequences,
                                predictions |-> r.out, out |-> r.out]
                    /\ resp' = [op |-> "predict", panel_id |-> panel_id,
                                status |-> IF r.out.some THEN 200 ELSE 503,
                                found |-> Len(found),
                                body |-> IF r.out.some THEN PredictBody(r.out.val)
                                         ELSE <<>>]
        /\ UNCHANGED <<ml_dir, telemetry, clock>>
        /\ UNCHANGED avars

\* GET /telemetry/anomalies
detect_anomalies_endpoint(panel_id, threshold, hours) ==
    LET since   == clock - hours
        records == QuerySince(telemetry[panel_id], since)
    IN  /\ IF TooFewForAnomalies(records)
           THEN /\ resp' = [op |-> "anomalies", panel_id |-> panel_id, status |-> 400,
                            found |-> Len(records), body |-> <<>>]
                /\ call' = NoCall
                /\ svc' = svc
           ELSE LET telemetry_data == ToDicts(records)
                    r == detect_anomalies(svc, telemetry_data, threshold)
                IN  /\ svc' = r.svc
                    /\ call' = [fn |-> "detect_anomalies", data |-> telemetry_data,
                                threshold |-> threshold, raised |-> FALSE,
                                sequences |-> r.sequences,
                                predictions |-> r.predictions, out |-> Some(r.out)]
                    /\ resp' = [op |-> "anomalies", panel_id |-> panel_id,
                                status |-> 200, found |-> Len(records),
                                body |-> [total_records_analyzed |-> Len(records),
                                          anomalies_detected |-> Len(r.out),
                                          threshold |-> threshold,
                                          anomalies |-> r.out]]
        /\ UNCHANGED <<ml_dir, telemetry, clock>>
        /\ UNCHANGED avars

\* GET /telemetry/predict-next
predict_next_power(panel_id) ==
    LET found == QueryRecent(telemetry[panel_id], NextLimit)
    IN  /\ IF TooFewForNext(found)
           THEN /\ resp' = [op |-> "predict-next", panel_id |-> panel_id,
                            status |-> 400, found |-> Len(found), body |-> <<>>]
                /\ call' = NoCall
                /\ svc' = svc
           ELSE LET records == Reverse(found)
                    telemetry_data == ToDicts(records)
                    r == predict_next(svc, telemetry_data)
                IN  /\ svc' = r.svc
                    /\ call' = [fn |-> "predict_next", data |-> telemetry_data,
                                threshold |-> 0, raised |-> FALSE,
                                sequences |-> None,
                                predictions |-> None, out |-> r.out]
                    /\ resp' = [op |-> "predict-next", panel_id |-> panel_id,
                                status |-> IF r.out.some THEN 200 ELSE 503,
                                found |-> Len(found),
                                body |-> IF r.out.some THEN [prediction |-> r.out.val]
                                         ELSE <<>>]
        /\ UNCHANGED <<ml_dir, telemetry, clock>>
        /\ UNCHANGED avars

-----------------------------------------------------------------------------
(* backend/app/services/cv_service.py *)

\* CVModelService.CLASS_NAMES.get(class_id, f"class_{class_id}")
ClassName(class_id) ==
    CASE class_id = 0 -> "Clean"
      [] class_id = 1 -> "Dusty"
      [] class_id = 2 -> "Electrical-damage"
      [] class_id = 3 -> "Physical-Damage"
      [] class_id = 4 -> "Snow-Covered"
      [] OTHER -> "class_other"

NoCvService == [created |-> FALSE, model |-> FALSE, model_version |-> ""]

\* CVModelService.__init__ with _load_model
NewCvService(weights) ==
    [created |-> TRUE, model |-> weights, model_version |-> "yolov8-solar-v1"]

\* get_cv_service: the singleton, created on first use
get_cv_service(current, weights) ==
    IF ~current.created THEN NewCvService(weights) ELSE current

is_available(service) == service.model

\* what _load_model writes to the log
LoadLog(weights) ==
    IF weights THEN <<"info: CV Model loaded">>
    ELSE <<"warning: Model not found">>

\* get_cv_service run without interruption: _cv_service is bound to a new
\* object when it was None
BindCvService(cv) ==
    /\ cv_service' = cv
    /\ cv_built' = IF cv_service.created THEN cv_built ELSE cv_built + 1
    /\ cv_ref' = IF cv_service.created THEN cv_ref ELSE cv_built + 1

\* inner: the exception raised inside the method ("none" when it returned),
\* raised: the exception the method let out to its caller
NoCvCall == [fn |-> "none", tmp_path |-> 0, inner |-> "none", raised |-> "none",
             out |-> <<>>]

\* the threads of the server's pool that serve requests at the same time
Threads == {"t1", "t2"}

\* a thread outside get_cv_service: pc is its position, inst the object its
\* last get_cv_service call returned (0: none yet), calls the calls it made
IdleThread == [pc |-> "idle", op |-> "none", inst |-> 0, calls |-> 0]

\* CVModelService.detect on an existing image: the boxes of the YOLO result
\* with confidence (in hundredths) at least the threshold
detect(boxes, confidence_threshold) ==
    LET kept == SelectSeq(boxes, LAMBDA b : b.conf >= confidence_threshold)
    IN  [k \in 1..Len(kept) |->
            [class_id |-> kept[k].cls, class_name |-> ClassName(kept[k].cls),
             confidence |-> kept[k].conf, bbox |-> kept[k].xyxy]]

\* CVModelService.detect on an existing image file.  yolo is the outcome of
\* running the network on it.
run_detect(service, yolo, confidence_threshold) ==
    IF ~is_available(service)
    THEN [raised |-> "RuntimeError: CV model not loaded", out |-> <<>>, log |-> <<>>]
    ELSE IF ~yolo.ok
    THEN [raised |-> "RuntimeError: Detection failed", out |-> <<>>,
          log |-> <<"error: Detection failed">>]
    ELSE [raised |-> "none", out |-> detect(yolo.boxes, confidence_threshold),
          log |-> <<>>]

\* mutant: the temporary file is removed only after a successful detection
detect_from_url_no_finally(service, files, tmp_path, download, yolo, confidence_threshold) ==
    LET r == IF download # "ok"
             THEN [raised |-> "URLError", out |-> <<>>, log |-> <<>>]
             ELSE run_detect(service, yolo, confidence_threshold)
    IN  [tmp_files |-> IF r.raised = "none" THEN files \ {tmp_path}
                       ELSE files \cup {tmp_path},
         inner |-> r.raised, raised |-> r.raised, out |-> r.out]

\* CVModelService.detect_from_url: files are the temporary files that exist,
\* tmp_path the new file's name, download the outcome of urlretrieve
detect_from_url(service, files, tmp_path, download, yolo, confidence_threshold) ==
    LET created == files \cup {tmp_path}
        r == IF download # "ok"
             THEN [raised |-> "URLError", out |-> <<>>, log |-> <<>>]
             ELSE run_detect(service, yolo, confidence_threshold)
    IN  [tmp_files |-> created \ {tmp_path},
         inner |-> r.raised, raised |-> r.raised, out |-> r.out]

\* CVModelService.detect_from_bytes
detect_from_bytes(service, files, tmp_path, yolo, confidence_threshold) ==
    LET created == files \cup {tmp_path}
        r == run_detect(service, yolo, confidence_threshold)
    IN  [tmp_files |-> created \ {tmp_path},
         inner |-> r.raised, raised |-> r.raised, out |-> r.out]

-----------------------------------------------------------------------------
(* backend/app/api: handlers that address a record by id *)

\* storage: the request sent to the object store and its outcome; log: the
\* messages the request wrote to the log
NoHttp == [op |-> "none", id |-> 0, status |-> 0, detail |-> "", body |-> <<>>,
           storage |-> "none", log |-> <<>>]

Http(op, id, status, detail, body) ==
    [op |-> op, id |-> id, status |-> status, detail |-> detail, body |-> body,
     storage |-> "none", log |-> <<>>]

\* mutant: the id filter is missing, db.query(T).first()
FirstUnfiltered(table, id) ==
    IF DOMAIN table # {} THEN Some(table[CHOOSE i \in DOMAIN table : TRUE]) ELSE None

\* db.query(T).filter(T.id == id).first()
First(table, id) == IF id \in DOMAIN table THEN Some(table[id]) ELSE None

Insert(table, id, row) == [i \in DOMAIN table \cup {id} |->
                              IF i = id THEN row ELSE table[i]]

\* mutant: db.delete(img) has no effect
DeleteNothing(table, id) == table

Delete(table, id) == [i \in DOMAIN table \ {id} |-> table[i]]

NextId(table) == Cardinality(DOMAIN table) + 1

\* POST /panels
create_panel(label) ==
    /\ LET id  == NextId(panels)
           row == [site_id |-> 1, label |-> label, serial_number |-> "None",
                   status |-> "OK", deleted_at |-> 0]
       IN  /\ panels' = Insert(panels, id, row)
           /\ http' = Http("create_panel", id, 200, "", row)
    /\ UNCHANGED <<missions, mission_images, inspection_results, image_seq,
                   cv_weights, cv_service, tmp_seq, tmp_files>>
    /\ UNCHANGED <<tvars, cvars>>

\* GET /panels/{panel_id}
get_panel(panel_id) ==
    LET panel == First(panels, panel_id)
    IN  /\ http' = IF ~panel.some
                   THEN Http("get_panel", panel_id, 404, "Panel not found", <<>>)
                   ELSE Http("get_panel", panel_id, 200, "", panel.val)
        /\ UNCHANGED <<panels, missions, mission_images, inspection_results,
                       image_seq, cv_weights, cv_service, tmp_seq, tmp_files>>
        /\ UNCHANGED <<tvars, cvars>>

\* PATCH /panels/{panel_id}; "None" is an absent payload field
update_panel(panel_id, payload) ==
    LET panel == First(panels, panel_id)
    IN  /\ IF ~panel.some
           THEN /\ http' = Http("update_panel", panel_id, 404, "Panel not found", <<>>)
                /\ panels' = panels
           ELSE LET row == [panel.val EXCEPT
                               !.label = IF payload.label # "None"
                                         THEN payload.label ELSE @,
                               !.serial_number = IF payload.serial_number # "None"
                                                 THEN payload.serial_number ELSE @,
                               !.status = IF payload.status # "None"
                                          THEN payload.status ELSE @]
                IN  /\ panels' = [panels EXCEPT ![panel_id] = row]
                    /\ http' = Http("update_panel", panel_id, 200, "", row)
        /\ UNCHANGED <<missions, mission_images, inspection_results, image_seq,
                       cv_weights, cv_service, tmp_seq, tmp_files>>
        /\ UNCHANGED <<tvars, cvars>>

\* DELETE /panels/{panel_id}
soft_delete_panel(panel_id) ==
    LET panel == First(panels, panel_id)
    IN  /\ IF ~panel.some
           THEN /\ http' = Http("soft_delete_panel", panel_id, 404,
                                "Panel not found", <<>>)
                /\ panels' = panels
           ELSE /\ panels' = [panels EXCEPT ![panel_id].deleted_at = clock]
                /\ http' = Http("soft_delete_panel", panel_id, 200,
                                "Panel soft-deleted", <<>>)
        /\ UNCHANGED <<missions, mission_images, inspection_results, image_seq,
                       cv_weights, cv_service, tmp_seq, tmp_files>>
        /\ UNCHANGED <<tvars, cvars>>

\* POST /missions; the insert fails on the panels foreign key
create_mission(panel_id, status) ==
    /\ IF panel_id \notin DOMAIN panels
       THEN /\ http' = Http("create_mission", 0, 500, "IntegrityError", <<>>)
            /\ missions' = missions
       ELSE LET id  == NextId(missions)
                row == [panel_id |-> panel_id, status |-> status,
                        approved_by_user_id |-> 0, approved_at |-> 0,
                        created_at |-> clock]
            IN  /\ missions' = Insert(missions, id, row)
                /\ http' = Http("create_mission", id, 200, "", row)
    /\ UNCHANGED <<panels, mission_images, inspection_results, image_seq,
                   cv_weights, cv_service, tmp_seq, tmp_files>>
    /\ UNCHANGED <<tvars, cvars>>

\* GET /missions/{mission_id}
get_mission(mission_id) ==
    LET mission == First(missions, mission_id)
    IN  /\ http' = IF ~mission.some
                   THEN Http("get_mission", mission_id, 404, "Mission not found", <<>>)
                   ELSE Http("get_mission", mission_id, 200, "", mission.val)
        /\ UNCHANGED <<panels, missions, mission_images, inspection_results,
                       image_seq, cv_weights, cv_service, tmp_seq, tmp_files>>
        /\ UNCHANGED <<tvars, cvars>>

\* POST /missions/{mission_id}/approve
approve_mission(mission_id, approved_by_user_id) ==
    LET mission == First(missions, mission_id)
    IN  /\ IF ~mission.some
           THEN /\ http' = Http("approve_mission", mission_id, 404,
                                "Mission not found", <<>>)
                /\ missions' = missions
           ELSE LET row == [mission.val EXCEPT
                               !.status = "APPROVED",
                               !.approved_by_user_id = approved_by_user_id,
                               !.approved_at = clock]
                IN  /\ missions' = [missions EXCEPT ![mission_id] = row]
                    /\ http' = Http("approve_mission", mission_id, 200, "", row)
        /\ UNCHANGED <<panels, mission_images, inspection_results, image_seq,
                       cv_weights, cv_service, tmp_seq, tmp_files>>
        /\ UNCHANGED <<tvars, cvars>>

\* POST /inspection-results; the insert fails on a foreign key that is set
\* and names no row
create_inspection_result(payload) ==
    /\ IF \/ payload.mission_id \notin DOMAIN missions
          \/ payload.panel_id # 0 /\ payload.panel_id \notin DOMAIN panels
          \/ /\ payload.mission_image_id # 0
             /\ payload.mission_image_id \notin DOMAIN mission_images
       THEN /\ http' = Http("create_inspection_result", 0, 500, "IntegrityError", <<>>)
            /\ inspection_results' = inspection_results
       ELSE LET id == NextId(inspection_results)
            IN  /\ inspection_results' = Insert(inspection_results, id, payload)
                /\ http' = Http("create_inspection_result", id, 200, "", payload)
    /\ UNCHANGED <<panels, missions, mission_images, image_seq, cv_weights,
                   cv_service, tmp_seq, tmp_files>>
    /\ UNCHANGED <<tvars, cvars>>

\* GET /inspection-results/{inspection_id}
get_inspection_result(inspection_id) ==
    LET row == First(inspection_results, inspection_id)
    IN  /\ http' = IF ~row.some
                   THEN Http("get_inspection_result", inspection_id, 404,
                             "Inspection result not found", <<>>)
                   ELSE Http("get_inspection_result", inspection_id, 200, "", row.val)
        /\ UNCHANGED <<panels, missions, mission_images, inspection_results,
                       image_seq, cv_weights, cv_service, tmp_seq, tmp_files>>
        /\ UNCHANGED <<tvars, cvars>>

\* PATCH /inspection-results/{inspection_id}; "None" is an absent field
update_inspection_result(inspection_id, payload) ==
    LET row == First(inspection_results, inspection_id)
    IN  /\ IF ~row.some
           THEN /\ http' = Http("update_inspection_result", inspection_id, 404,
                                "Inspection result not found", <<>>)
                /\ inspection_results' = inspection_results
           ELSE LET new == [row.val EXCEPT
                               !.status = IF payload.status # "None"
                                          THEN payload.status ELSE @,
                               !.defect_type = IF payload.defect_type # "None"
                                               THEN payload.defect_type ELSE @,
                               !.confidence = IF payload.confidence # -1
                                              THEN payload.confidence ELSE @,
                               !.bbox = IF payload.bbox # "None"
                                        THEN payload.bbox ELSE @,
                               !.notes = IF payload.notes # "None"
                                         THEN payload.notes ELSE @,
                               !.model_version = IF payload.model_version # "None"
                                                 THEN payload.model_version ELSE @]
                IN  /\ inspection_results' =
                           [inspection_results EXCEPT ![inspection_id] = new]
                    /\ http' = Http("update_inspection_result", inspection_id,
                                    200, "", new)
        /\ UNCHANGED <<panels, missions, mission_images, image_seq, cv_weights,
                       cv_service, tmp_seq, tmp_files>>
        /\ UNCHANGED <<tvars, cvars>>

\* POST /mission-images.  The payload carries no storage_key, which the
\* table declares NOT NULL: whether the insert is accepted depends on the
\* deployed schema, so commit is either outcome.
create_mission_image(payload, commit) ==
    LET mission == First(missions, payload.mission_id)
    IN  /\ IF ~mission.some
           THEN /\ http' = Http("create_mission_image", payload.mission_id, 404,
                                "Mission not found", <<>>)
                /\ UNCHANGED <<mission_images, image_seq>>
           ELSE IF commit # "ok"
           THEN /\ http' = Http("create_mission_image", payload.mission_id, 500,
                                "IntegrityError", <<>>)
                /\ UNCHANGED <<mission_images, image_seq>>
           ELSE LET id == image_seq + 1
                IN  /\ mission_images' = Insert(mission_images, id, payload)
                    /\ image_seq' = id
                    /\ http' = Http("create_mission_image", payload.mission_id,
                                    200, "", payload)
        /\ UNCHANGED <<panels, missions, inspection_results, cv_weights,
                       cv_service, tmp_seq, tmp_files>>
        /\ UNCHANGED <<tvars, cvars>>

\* GET /mission-images/{image_id}
get_mission_image(image_id) ==
    LET img == First(mission_images, image_id)
    IN  /\ http' = IF ~img.some
                   THEN Http("get_mission_image", image_id, 404,
                             "Mission image not found", <<>>)
                   ELSE Http("get_mission_image", image_id, 200, "", img.val)
        /\ UNCHANGED <<panels, missions, mission_images, inspection_results,
                       image_seq, cv_weights, cv_service, tmp_seq, tmp_files>>
        /\ UNCHANGED <<tvars, cvars>>

\* mutant: a detected defect is stored for review instead of as a failure
InspectionOfReview(img_id, img, detection, model_version) ==
    [mission_id       |-> img.mission_id,
     mission_image_id |-> img_id,
     panel_id         |-> 0,
     status           |-> IF detection.class_name = "Clean" THEN "PASS" ELSE "REVIEW",
     defect_type      |-> detection.class_name,
     confidence       |-> detection.confidence,
     bbox             |-> detection.bbox,
     notes            |-> "None",
     model_version    |-> model_version]

\* the InspectionResult stored for one detection
InspectionOf(img_id, img, detection, model_version) ==
    [mission_id       |-> img.mission_id,
     mission_image_id |-> img_id,
     panel_id         |-> 0,
     status           |-> IF detection.class_name = "Clean" THEN "PASS" ELSE "FAIL",
     defect_type      |-> detection.class_name,
     confidence       |-> detection.confidence,
     bbox             |-> detection.bbox,
     notes            |-> "None",
     model_version    |-> model_version]

\* mutant: the earlier results of the image are deleted before the image is
\* fetched and analysed, so a failed analysis loses them
analyze_mission_image_clears_first(image_id, confidence_threshold, fetch, yolo) ==
    LET img == First(mission_images, image_id)
        cv  == get_cv_service(cv_service, cv_weights)
        init_log == IF cv_service.created THEN <<>> ELSE LoadLog(cv_weights)
        tmp_path == tmp_seq + 1
        detections == detect(yolo.boxes, confidence_threshold)
        base == Cardinality(DOMAIN inspection_results)
        cleared == [i \in {j \in DOMAIN inspection_results :
                              inspection_results[j].mission_image_id # image_id} |->
                       inspection_results[i]]
        rows == [k \in 1..Len(detections) |->
                    InspectionOf(image_id, img.val, detections[k], cv.model_version)]
    IN  /\ IF ~img.some
           THEN /\ http' = Http("analyze_mission_image", image_id, 404,
                                "Mission image not found", <<>>)
                /\ UNCHANGED <<cv_service, cv_built, cv_ref, cv_call, tmp_seq,
                               tmp_files, inspection_results>>
           ELSE IF ~is_available(cv)
           THEN /\ http' = [Http("analyze_mission_image", image_id, 503,
                                 "CV model not available", <<>>)
                               EXCEPT !.log = init_log]
                /\ BindCvService(cv)
                /\ UNCHANGED <<cv_call, tmp_seq, tmp_files, inspection_results>>
           ELSE IF fetch = "status"
           THEN /\ http' = [Http("analyze_mission_image", image_id, 404,
                                 "Could not fetch image from storage", <<>>)
                               EXCEPT !.storage = "get:status", !.log = init_log]
                /\ BindCvService(cv)
                /\ tmp_seq' = tmp_path
                /\ tmp_files' = tmp_files \cup {tmp_path}
                /\ inspection_results' = cleared
                /\ UNCHANGED cv_call
           ELSE IF fetch = "error"
           THEN /\ http' = [Http("analyze_mission_image", image_id, 500,
                                 "Analysis failed", <<>>)
                               EXCEPT !.storage = "get:error", !.log = init_log]
                /\ BindCvService(cv)
                /\ tmp_seq' = tmp_path
                /\ tmp_files' = tmp_files \cup {tmp_path}
                /\ inspection_results' = cleared
                /\ UNCHANGED cv_call
           ELSE IF ~yolo.ok
           THEN /\ http' = [Http("analyze_mission_image", image_id, 500,
                                 "Analysis failed", <<>>)
                               EXCEPT !.storage = "get:200",
                                      !.log = init_log \o <<"error: Detection failed">>]
                /\ BindCvService(cv)
                /\ cv_call' = [fn |-> "detect", tmp_path |-> tmp_path,
                               inner |-> "RuntimeError: Detection failed",
                               raised |-> "RuntimeError: Detection failed",
                               out |-> <<>>]
                /\ tmp_seq' = tmp_path
                /\ tmp_files' = tmp_files \cup {tmp_path}
                /\ inspection_results' = cleared
           ELSE /\ BindCvService(cv)
                /\ cv_call' = [fn |-> "detect", tmp_path |-> tmp_path,
                               inner |-> "none", raised |-> "none",
                               out |-> detections]
                /\ tmp_seq' = tmp_path
                /\ tmp_files' = (tmp_files \cup {tmp_path}) \ {tmp_path}
                /\ inspection_results' =
                       [i \in DOMAIN inspection_results \cup (base + 1)..(base + Len(rows)) |->
                           IF i \in DOMAIN inspection_results
                           THEN inspection_results[i] ELSE rows[i - base]]
                /\ http' = [Http("analyze_mission_image", image_id, 200, "",
                                 [image_id |-> image_id,
                                  storage_path |-> img.val.storage_path,
                                  detections |->
                                      [k \in 1..Len(rows) |->
                                          [inspection_id |-> base + k,
                                           class_name |-> rows[k].defect_type,
                                           confidence |-> rows[k].confidence,
                                           bbox |-> rows[k].bbox,
                                           status |-> rows[k].status]],
                                  total_detections |-> Len(rows)])
                               EXCEPT !.storage = "get:200", !.log = init_log]
        /\ UNCHANGED <<panels, missions, mission_images, image_seq, cv_weights,
                       threads>>
        /\ UNCHANGED tvars

\* POST /mission-images/{image_id}/analyze.  fetch is the outcome of the
\* storage GET ("200", "status" for any other status, "error" for a transport
\* exception); yolo is the outcome of running the model on the image.
analyze_mission_image(image_id, confidence_threshold, fetch, yolo) ==
    LET img == First(mission_images, image_id)
        cv  == get_cv_service(cv_service, cv_weights)
        init_log == IF cv_service.created THEN <<>> ELSE LoadLog(cv_weights)
        tmp_path == tmp_seq + 1
        detections == detect(yolo.boxes, confidence_threshold)
        base == Cardinality(DOMAIN inspection_results)
        rows == [k \in 1..Len(detections) |->
                    InspectionOf(image_id, img.val, detections[k], cv.model_version)]
    IN  /\ IF ~img.some
           THEN /\ http' = Http("analyze_mission_image", image_id, 404,
                                "Mission image not found", <<>>)
                /\ UNCHANGED <<cv_service, cv_built, cv_ref, cv_call, tmp_seq,
                               tmp_files, inspection_results>>
           ELSE IF ~is_available(cv)
           THEN /\ http' = [Http("analyze_mission_image", image_id, 503,
                                 "CV model not available", <<>>)
                               EXCEPT !.log = init_log]
                /\ BindCvService(cv)
                /\ UNCHANGED <<cv_call, tmp_seq, tmp_files, inspection_results>>
           ELSE IF fetch = "status"
           THEN /\ http' = [Http("analyze_mission_image", image_id, 404,
                                 "Could not fetch image from storage", <<>>)
                               EXCEPT !.storage = "get:status", !.log = init_log]
                /\ BindCvService(cv)
                /\ tmp_seq' = tmp_path
                /\ tmp_files' = tmp_files \cup {tmp_path}
                /\ UNCHANGED <<cv_call, inspection_results>>
           ELSE IF fetch = "error"
           THEN /\ http' = [Http("analyze_mission_image", image_id, 500,
                                 "Analysis failed", <<>>)
                               EXCEPT !.storage = "get:error", !.log = init_log]
                /\ BindCvService(cv)
                /\ tmp_seq' = tmp_path
                /\ tmp_files' = tmp_files \cup {tmp_path}
                /\ UNCHANGED <<cv_call, inspection_results>>
           ELSE IF ~yolo.ok
           THEN /\ http' = [Http("analyze_mission_image", image_id, 500,
                                 "Analysis failed", <<>>)
                               EXCEPT !.storage = "get:200",
                                      !.log = init_log \o <<"error: Detection failed">>]
                /\ BindCvService(cv)
                /\ cv_call' = [fn |-> "detect", tmp_path |-> tmp_path,
                               inner |-> "RuntimeError: Detection failed",
                               raised |-> "RuntimeError: Detection failed",
                               out |-> <<>>]
                /\ tmp_seq' = tmp_path
                /\ tmp_files' = tmp_files \cup {tmp_path}
                /\ UNCHANGED inspection_results
           ELSE /\ BindCvService(cv)
                /\ cv_call' = [fn |-> "detect", tmp_path |-> tmp_path,
                               inner |-> "none", raised |-> "none",
                               out |-> detections]
                /\ tmp_seq' = tmp_path
                /\ tmp_files' = (tmp_files \cup {tmp_path}) \ {tmp_path}
                /\ inspection_results' =
                       [i \in DOMAIN inspection_results \cup (base + 1)..(base + Len(rows)) |->
                           IF i \in DOMAIN inspection_results
                           THEN inspection_results[i] ELSE rows[i - base]]
                /\ http' = [Http("analyze_mission_image", image_id, 200, "",
                                 [image_id |-> image_id,
                                  storage_path |-> img.val.storage_path,
                                  detections |->
                                      [k \in 1..Len(rows) |->
                                          [inspection_id |-> base + k,
                                           class_name |-> rows[k].defect_type,
                                           confidence |-> rows[k].confidence,
                                           bbox |-> rows[k].bbox,
                                           status |-> rows[k].status]],
                                  total_detections |-> Len(rows)])
                               EXCEPT !.storage = "get:200", !.log = init_log]
        /\ UNCHANGED <<panels, missions, mission_images, image_seq, cv_weights,
                       threads>>
        /\ UNCHANGED tvars

\* the ids of the results of an image, latest first
RECURSIVE ResultIdsDesc(_, _)
ResultIdsDesc(image_id, n) ==
    IF n = 0 THEN <<>>
    ELSE (IF n \in DOMAIN inspection_results
             /\ inspection_results[n].mission_image_id = image_id
          THEN <<n>> ELSE <<>>) \o ResultIdsDesc(image_id, n - 1)

\* GET /mission-images/{image_id}/results
get_image_analysis_results(image_id) ==
    LET img == First(mission_images, image_id)
        ids == ResultIdsDesc(image_id, Cardinality(DOMAIN inspection_results))
    IN  /\ http' = IF ~img.some
                   THEN Http("get_image_analysis_results", image_id, 404,
                             "Mission image not found", <<>>)
                   ELSE Http("get_image_analysis_results", image_id, 200, "",
                             [k \in 1..Len(ids) |->
                                 [inspection_id |-> ids[k],
                                  class_name |-> inspection_results[ids[k]].defect_type,
                                  confidence |-> inspection_results[ids[k]].confidence,
                                  bbox |-> inspection_results[ids[k]].bbox,
                                  status |-> inspection_results[ids[k]].status]])
        /\ UNCHANGED <<panels, missions, mission_images, inspection_results,
                       image_seq, cv_weights, cv_service, tmp_seq, tmp_files>>
        /\ UNCHANGED <<tvars, cvars>>

\* mutant: the status of the mission is not looked at
IsCompletedNever(mission) == FALSE

\* mission and mission.status == 'COMPLETED'
IsCompleted(mission) == mission.some /\ mission.val.status = "COMPLETED"

\* DELETE /mission-images/{image_id}.  outcome is that of the storage delete
\* request ("200", "status", "error").  Deleting the row sets
\* inspection_results.mission_image_id to NULL (ON DELETE SET NULL).
delete_mission_image(image_id, outcome) ==
    LET img     == First(mission_images, image_id)
        mission == IF img.some THEN First(missions, img.val.mission_id) ELSE None
    IN  /\ IF ~img.some
           THEN /\ http' = Http("delete_mission_image", image_id, 404,
                                "Mission image not found", <<>>)
                /\ UNCHANGED <<mission_images, inspection_results>>
           ELSE IF IsCompleted(mission)
           THEN /\ http' = Http("delete_mission_image", image_id, 400,
                                "Cannot delete image for a completed mission", <<>>)
                /\ UNCHANGED <<mission_images, inspection_results>>
           ELSE /\ mission_images' = Delete(mission_images, image_id)
                /\ inspection_results' =
                       [i \in DOMAIN inspection_results |->
                           IF inspection_results[i].mission_image_id = image_id
                           THEN [inspection_results[i] EXCEPT !.mission_image_id = 0]
                           ELSE inspection_results[i]]
                /\ http' = [Http("delete_mission_image", image_id, 200,
                                 "Mission image deleted", <<>>)
                               EXCEPT !.storage = "delete:" \o outcome]
        /\ UNCHANGED <<panels, missions, image_seq, cv_weights, cv_service,
                       tmp_seq, tmp_files>>
        /\ UNCHANGED <<tvars, cvars>>

\* model_service.create_sequences called directly on the first n rows of a panel
create_sequences_call(panel_id, n) ==
    /\ n <= Len(telemetry[panel_id])
    /\ LET telemetry_data == ToDicts(SubSeq(telemetry[panel_id], 1, n))
           r == create_sequences(svc, telemetry_data)
       IN  call' = [fn |-> "create_sequences", data |-> telemetry_data,
                    threshold |-> 0, raised |-> r.raised, sequences |-> r.out,
                    predictions |-> None, out |-> None]
    /\ resp' = NoResp
    /\ UNCHANGED <<ml_dir, telemetry, clock, svc>>
    /\ UNCHANGED avars

-----------------------------------------------------------------------------
(* The telemetry service as a state machine *)

HistRow(panel_id, t) ==
    LET off == IF panel_id = "p1" THEN 0 ELSE 1
    IN  [voltage |-> 10 + ((t + off) % 4),
         current |-> 1 + ((t \div (2 + off)) % 3),
         temperature |-> 20 + ((t + 3 * off) % 7),
         timestamp |-> t]

\* n hourly rows, the latest one hour before the service starts
Hist(panel_id, n) == [k \in 1..n |-> HistRow(panel_id, StartClock - n + k - 1)]

\* a thread of the server's pool that is serving no /telemetry/predict
IdleWorker ==
    [pc |-> "idle", panel_id |-> "", found |-> 0, data |-> <<>>, calls |-> 0]

\* the database is empty and no request has been served
InitApi ==
    /\ panels = <<>>
    /\ missions = <<>>
    /\ mission_images = <<>>
    /\ inspection_results = <<>>
    /\ image_seq = 0
    /\ cv_weights \in BOOLEAN
    /\ cv_service = NoCvService
    /\ tmp_seq = 0
    /\ tmp_files = {}
    /\ nreq = 0
    /\ http = NoHttp
    /\ cv_built = 0
    /\ cv_ref = 0
    /\ threads = [t \in Threads |-> IdleThread]
    /\ cv_call = NoCvCall
    /\ completed_images = {}

InitTelemetry ==
    /\ ml_dir \in {EmptyDir, main(Csv)}
    /\ telemetry = [p \in Panels |-> Hist(p, InitLens[p])]
    /\ clock = StartClock
    /\ svc = NewService(ml_dir)
    /\ call = NoCall
    /\ resp = NoResp
    /\ workers = [t \in Threads |-> IdleWorker]

Init ==
    /\ InitTelemetry
    /\ InitApi
    /\ cv_weights = TRUE

CreateTelemetry ==
    \E p \in Panels, reading \in SensorReadings : create_telemetry(p, reading)

Predict == \E p \in Panels, limit \in Limits : predict_power_endpoint(p, limit)

Anomalies ==
    \E p \in Panels, threshold \in Thresholds, hours \in Hours :
        detect_anomalies_endpoint(p, threshold, hours)

PredictNext == \E p \in Panels : predict_next_power(p)

CreateSequences ==
    \E p \in Panels, n \in DirectLens : create_sequences_call(p, n)

Next == CreateTelemetry \/ Predict \/ Anomalies \/ PredictNext \/ CreateSequences

Spec == Init /\ [][Next]_vars

-----------------------------------------------------------------------------
(* The REST handlers as a state machine *)

\* the ids a request may name: those handed out so far and one that was not
Ids(n) == 1..(n + 1)

Rows(table) == Cardinality(DOMAIN table)

PanelLabels == {"A"}

PanelPayloads ==
    {[label |-> "B", serial_number |-> "None", status |-> "None"],
     [label |-> "None", serial_number |-> "None", status |-> "FAULT"]}

MissionStatuses == {"DRAFT", "COMPLETED"}

ImagePayloads ==
    {[mission_id |-> m, storage_path |-> "a.jpg"] : m \in Ids(Rows(missions))}

InspectionPayloads ==
    {[mission_id |-> m, mission_image_id |-> i, panel_id |-> 0,
      status |-> "REVIEW", defect_type |-> "None", confidence |-> -1,
      bbox |-> "None", notes |-> "None", model_version |-> "None"] :
        m \in Ids(Rows(missions)), i \in 0..image_seq}

InspectionUpdates ==
    {[status |-> "FAIL", defect_type |-> "None", confidence |-> -1,
      bbox |-> "None", notes |-> "checked", model_version |-> "None"]}

ConfidenceThresholds == {50}

YoloOutcomes ==
    {[ok |-> FALSE, boxes |-> <<>>],
     [ok |-> TRUE, boxes |-> <<>>],
     [ok |-> TRUE, boxes |-> <<[cls |-> 0, conf |-> 90, xyxy |-> "box1"]>>],
     [ok |-> TRUE, boxes |-> <<[cls |-> 1, conf |-> 80, xyxy |-> "box1"],
                               [cls |-> 0, conf |-> 40, xyxy |-> "box2"],
                               [cls |-> 7, conf |-> 60, xyxy |-> "box3"]>>]}

StorageOutcomes == {"200", "status", "error"}

InitRest ==
    /\ InitApi
    /\ ml_dir = EmptyDir
    /\ telemetry = [p \in Panels |-> <<>>]
    /\ clock = StartClock
    /\ svc = NewService(ml_dir)
    /\ call = NoCall
    /\ resp = NoResp
    /\ workers = [t \in Threads |-> IdleWorker]

\* one request is served, MaxRequests of them in all; the history takes in
\* the images that belong to a COMPLETED mission when the request arrives
Served ==
    /\ nreq < MaxRequests
    /\ nreq' = nreq + 1
    /\ completed_images' =
           completed_images \cup
               {i \in DOMAIN mission_images :
                   /\ mission_images[i].mission_id \in DOMAIN missions
                   /\ missions[mission_images[i].mission_id].status = "COMPLETED"}

CreatePanel ==
    /\ Served
    /\ \E label \in PanelLabels :
          create_panel(label)

GetPanel ==
    /\ Served
    /\ \E id \in Ids(Rows(panels)) :
          get_panel(id)

UpdatePanel ==
    /\ Served
    /\ \E id \in Ids(Rows(panels)), payload \in PanelPayloads :
          update_panel(id, payload)

SoftDeletePanel ==
    /\ Served
    /\ \E id \in Ids(Rows(panels)) :
          soft_delete_panel(id)

CreateMission ==
    /\ Served
    /\ \E panel_id \in Ids(Rows(panels)), status \in MissionStatuses :
          create_mission(panel_id, status)

GetMission ==
    /\ Served
    /\ \E id \in Ids(Rows(missions)) :
          get_mission(id)

ApproveMission ==
    /\ Served
    /\ \E id \in Ids(Rows(missions)) :
          approve_mission(id, 1)

CreateInspectionResult ==
    /\ Served
    /\ \E payload \in InspectionPayloads :
          create_inspection_result(payload)

GetInspectionResult ==
    /\ Served
    /\ \E id \in Ids(Rows(inspection_results)) :
          get_inspection_result(id)

UpdateInspectionResult ==
    /\ Served
    /\ \E id \in Ids(Rows(inspection_results)), payload \in InspectionUpdates :
          update_inspection_result(id, payload)

CreateMissionImage ==
    /\ Served
    /\ \E payload \in ImagePayloads, commit \in {"ok", "IntegrityError"} :
          create_mission_image(payload, commit)

GetMissionImage ==
    /\ Served
    /\ \E id \in Ids(image_seq) :
          get_mission_image(id)

AnalyzeMissionImage ==
    /\ Served
    /\ \E id \in Ids(image_seq), c \in ConfidenceThresholds,
          fetch \in StorageOutcomes, yolo \in YoloOutcomes :
          analyze_mission_image(id, c, fetch, yolo)

GetImageAnalysisResults ==
    /\ Served
    /\ \E id \in Ids(image_seq) :
          get_image_analysis_results(id)

DeleteMissionImage ==
    /\ Served
    /\ \E id \in Ids(image_seq), outcome \in StorageOutcomes :
          delete_mission_image(id, outcome)

NextRest ==
    \/ CreatePanel \/ GetPanel \/ UpdatePanel \/ SoftDeletePanel
    \/ CreateMission \/ GetMission \/ ApproveMission
    \/ CreateInspectionResult \/ GetInspectionResult \/ UpdateInspectionResult
    \/ CreateMissionImage \/ GetMissionImage \/ AnalyzeMissionImage
    \/ GetImageAnalysisResults \/ DeleteMissionImage

SpecRest == InitRest /\ [][NextRest]_vars

-----------------------------------------------------------------------------
(* The CV service module under concurrent request threads *)

MaxCvCalls == 2

CvOps == {"cv_status", "detect_from_url", "detect_from_bytes"}

Downloads == {"ok", "URLError"}

\* the rest of the backend is left alone by the CV service module
CvFrame ==
    /\ UNCHANGED tvars
    /\ UNCHANGED <<panels, missions, mission_images, inspection_results,
                   image_seq, cv_weights, nreq, http, completed_images>>

\* get_cv_service, the test `_cv_service is None`, by a thread that starts
\* serving a request
get_cv_service_check(t, op) ==
    /\ threads[t].pc = "idle"
    /\ threads[t].calls < MaxCvCalls
    /\ threads' = [threads EXCEPT ![t].op = op,
                                  ![t].pc = IF cv_ref = 0 THEN "construct"
                                            ELSE "return"]
    /\ UNCHANGED <<cv_service, cv_built, cv_ref, cv_call, tmp_seq, tmp_files>>
    /\ CvFrame

\* get_cv_service, `_cv_service = CVModelService()`
get_cv_service_construct(t) ==
    /\ threads[t].pc = "construct"
    /\ cv_built' = cv_built + 1
    /\ cv_ref' = cv_built + 1
    /\ cv_service' = NewCvService(cv_weights)
    /\ threads' = [threads EXCEPT ![t].pc = "return"]
    /\ UNCHANGED <<cv_call, tmp_seq, tmp_files>>
    /\ CvFrame

\* get_cv_service, `return _cv_service`
get_cv_service_return(t) ==
    /\ threads[t].pc = "return"
    /\ threads' = [threads EXCEPT ![t].pc = "got", ![t].inst = cv_ref]
    /\ UNCHANGED <<cv_service, cv_built, cv_ref, cv_call, tmp_seq, tmp_files>>
    /\ CvFrame

\* GET /cv/status on the object the thread was given
cv_status(t) ==
    /\ threads[t].pc = "got"
    /\ threads[t].op = "cv_status"
    /\ cv_call' = [fn |-> "cv_status", tmp_path |-> 0, inner |-> "none",
                   raised |-> "none",
                   out |-> <<[available |-> is_available(cv_service),
                              model_version |-> cv_service.model_version]>>]
    /\ threads' = [threads EXCEPT ![t].pc = "idle", ![t].calls = @ + 1]
    /\ UNCHANGED <<cv_service, cv_built, cv_ref, tmp_seq, tmp_files>>
    /\ CvFrame

\* detect_from_url called on the object the thread was given
detect_from_url_call(t, download, yolo, confidence_threshold) ==
    /\ threads[t].pc = "got"
    /\ threads[t].op = "detect_from_url"
    /\ LET tmp_path == tmp_seq + 1
           r == detect_from_url(cv_service, tmp_files, tmp_path, download, yolo,
                                confidence_threshold)
       IN  /\ tmp_seq' = tmp_path
           /\ tmp_files' = r.tmp_files
           /\ cv_call' = [fn |-> "detect_from_url", tmp_path |-> tmp_path,
                          inner |-> r.inner, raised |-> r.raised, out |-> r.out]
    /\ threads' = [threads EXCEPT ![t].pc = "idle", ![t].calls = @ + 1]
    /\ UNCHANGED <<cv_service, cv_built, cv_ref>>
    /\ CvFrame

\* detect_from_bytes called on the object the thread was given
detect_from_bytes_call(t, yolo, confidence_threshold) ==
    /\ threads[t].pc = "got"
    /\ threads[t].op = "detect_from_bytes"
    /\ LET tmp_path == tmp_seq + 1
           r == detect_from_bytes(cv_service, tmp_files, tmp_path, yolo,
                                  confidence_threshold)
       IN  /\ tmp_seq' = tmp_path
           /\ tmp_files' = r.tmp_files
           /\ cv_call' = [fn |-> "detect_from_bytes", tmp_path |-> tmp_path,
                          inner |-> r.inner, raised |-> r.raised, out |-> r.out]
    /\ threads' = [threads EXCEPT ![t].pc = "idle", ![t].calls = @ + 1]
    /\ UNCHANGED <<cv_service, cv_built, cv_ref>>
    /\ CvFrame

InitCv == InitRest

GetCvServiceCheck == \E t \in Threads, op \in CvOps : get_cv_service_check(t, op)

GetCvServiceConstruct == \E t \in Threads : get_cv_service_construct(t)

GetCvServiceReturn == \E t \in Threads : get_cv_service_return(t)

CvStatus == \E t \in Threads : cv_status(t)

DetectFromUrl ==
    \E t \in Threads, download \in Downloads, yolo \in YoloOutcomes,
       c \in ConfidenceThresholds :
          detect_from_url_call(t, download, yolo, c)

DetectFromBytes ==
    \E t \in Threads, yolo \in YoloOutcomes, c \in ConfidenceThresholds :
          detect_from_bytes_call(t, yolo, c)

NextCv ==
    \/ GetCvServiceCheck \/ GetCvServiceConstruct \/ GetCvServiceReturn
    \/ CvStatus \/ DetectFromUrl \/ DetectFromBytes

SpecCv == InitCv /\ [][NextCv]_vars

-----------------------------------------------------------------------------
(* GET /telemetry/predict under concurrent request threads.  The handler   *)
(* is a plain def, which the server runs in a thread of its pool, and all  *)
(* threads use the one module-level model_service.                         *)

MaxWorkerCalls == 1

\* rows each panel holds when the threads start
WorkerLens == [p1 |-> 100, p2 |-> 100]

WorkerLimits == {20, 100}

\* the threads write the service, their own position and the last response
WorkerFrame ==
    /\ UNCHANGED <<ml_dir, telemetry, clock>>
    /\ UNCHANGED restvars

\* the thread leaves the handler with the given outcome of
\* model_service.predict_power
predict_power_respond(t, sequences, out) ==
    /\ resp' = [op |-> "predict", panel_id |-> workers[t].panel_id,
                status |-> IF out.some THEN 200 ELSE 503,
                found |-> workers[t].found,
                body |-> IF out.some THEN PredictBody(out.val) ELSE <<>>]
    /\ call' = [fn |-> "predict_power", data |-> workers[t].data,
                threshold |-> 0, raised |-> FALSE, sequences |-> sequences,
                predictions |-> out, out |-> out]
    /\ workers' = [workers EXCEPT
                      ![t] = [IdleWorker EXCEPT !.calls = workers[t].calls + 1]]

\* the handler up to the call of model_service.predict_power: the query, the
\* len(records) < 20 check and the conversion to dicts
predict_power_query(t, panel_id, limit) ==
    /\ workers[t].pc = "idle"
    /\ workers[t].calls < MaxWorkerCalls
    /\ LET found == QueryRecent(telemetry[panel_id], limit)
       IN  IF TooFewForPredict(found)
           THEN /\ resp' = [op |-> "predict", panel_id |-> panel_id,
                            status |-> 400, found |-> Len(found), body |-> <<>>]
                /\ call' = NoCall
                /\ workers' = [workers EXCEPT ![t].calls = @ + 1]
           ELSE /\ workers' = [workers EXCEPT
                                  ![t] = [pc |-> "called", panel_id |-> panel_id,
                                          found |-> Len(found),
                                          data |-> ToDicts(Reverse(found)),
                                          calls |-> workers[t].calls]]
                /\ UNCHANGED <<call, resp>>
    /\ svc' = svc
    /\ WorkerFrame

\* predict_power: `if self.model is None` and `if not self.is_fitted`
predict_power_enter(t) ==
    /\ workers[t].pc = "called"
    /\ IF ~svc.model.loaded
       THEN predict_power_respond(t, None, None)
       ELSE /\ workers' = [workers EXCEPT
                              ![t].pc = IF svc.is_fitted THEN "fitted" ELSE "fit_X"]
            /\ UNCHANGED <<call, resp>>
    /\ svc' = svc
    /\ WorkerFrame

\* fit_scalers: the length check and `self.scaler_X.fit(features)`
fit_scalers_X(t) ==
    /\ workers[t].pc = "fit_X"
    /\ IF Len(workers[t].data) < MinFitRecords
       THEN /\ predict_power_respond(t, None, None)
            /\ svc' = svc
       ELSE /\ svc' = [svc EXCEPT
                          !.scaler_X = ScalerFit(FeatureCols(workers[t].data))]
            /\ workers' = [workers EXCEPT ![t].pc = "fit_y"]
            /\ UNCHANGED <<call, resp>>
    /\ WorkerFrame

\* fit_scalers: `self.scaler_y.fit(power)`
fit_scalers_y(t) ==
    /\ workers[t].pc = "fit_y"
    /\ svc' = [svc EXCEPT !.scaler_y = ScalerFit(PowerCol(workers[t].data))]
    /\ workers' = [workers EXCEPT ![t].pc = "is_fitted"]
    /\ UNCHANGED <<call, resp>>
    /\ WorkerFrame

\* fit_scalers: `self.is_fitted = True` and `return True`
fit_scalers_is_fitted(t) ==
    /\ workers[t].pc = "is_fitted"
    /\ svc' = [svc EXCEPT !.is_fitted = TRUE]
    /\ workers' = [workers EXCEPT ![t].pc = "fitted"]
    /\ UNCHANGED <<call, resp>>
    /\ WorkerFrame

\* predict_power from create_sequences on, with the scalers as they are now,
\* and the handler's response
predict_power_predict(t) ==
    /\ workers[t].pc = "fitted"
    /\ LET r == predict_power(svc, workers[t].data)
       IN  predict_power_respond(t, r.sequences, r.out)
    /\ svc' = svc
    /\ WorkerFrame

InitWorkers ==
    /\ ml_dir \in {EmptyDir, main(Csv)}
    /\ telemetry = [p \in Panels |-> Hist(p, WorkerLens[p])]
    /\ clock = StartClock
    /\ svc = NewService(ml_dir)
    /\ call = NoCall
    /\ resp = NoResp
    /\ workers = [t \in Threads |-> IdleWorker]
    /\ InitApi
    /\ cv_weights = TRUE

PredictPowerQuery ==
    \E t \in Threads, p \in Panels, limit \in WorkerLimits :
        predict_power_query(t, p, limit)

PredictPowerEnter == \E t \in Threads : predict_power_enter(t)

FitScalersX == \E t \in Threads : fit_scalers_X(t)

FitScalersY == \E t \in Threads : fit_scalers_y(t)

FitScalersIsFitted == \E t \in Threads : fit_scalers_is_fitted(t)

PredictPowerPredict == \E t \in Threads : predict_power_predict(t)

NextWorkers ==
    \/ PredictPowerQuery \/ PredictPowerEnter \/ FitScalersX \/ FitScalersY
    \/ FitScalersIsFitted \/ PredictPowerPredict

SpecWorkers == InitWorkers /\ [][NextWorkers]_vars

-----------------------------------------------------------------------------
(* Properties *)

MlOps == {"predict", "anomalies", "predict-next"}

\* the service calls in which predict_power ran
PredictCalls == {"predict_power", "detect_anomalies"}

\* C1: a telemetry ML request that finds fewer than 20 records is answered
\* with 400, makes no call to the model service and leaves the service
\* (model, scalers, is_fitted) as it was, whether or not the model is loaded.
C1_TooFewRecordsIs400 ==
    [][(resp'.op \in MlOps /\ resp'.found < 20)
          => (resp'.status = 400 /\ call'.fn = "none" /\ svc' = svc)]_vars

\* C1 witness: /anomalies answered 400 for a panel that holds at least 20
\* rows, too few of them in the window, while the model is loaded.
C1_Witness ==
    /\ resp.op = "anomalies"
    /\ resp.status = 400
    /\ Len(telemetry[resp.panel_id]) >= 20
    /\ svc.model.loaded
    /\ call.fn = "none"

\* C2: with no model loaded and at least 20 records, /predict and
\* /predict-next answer 503 and the call leaves the scalers and is_fitted
\* untouched.
C2_NoModelIs503 ==
    [][(resp'.op \in {"predict", "predict-next"} /\ ~svc.model.loaded
          /\ resp'.found >= 20)
          => (resp'.status = 503 /\ svc'.scaler_X = svc.scaler_X
              /\ svc'.scaler_y = svc.scaler_y /\ svc'.is_fitted = svc.is_fitted
              /\ ~svc'.is_fitted)]_vars

\* C2 witness: /predict on enough records to fit the scalers, answered 503
\* by a service without a model.
C2_Witness ==
    /\ resp.op = "predict"
    /\ resp.status = 503
    /\ resp.found >= MinFitRecords
    /\ ~svc.model.loaded
    /\ ~svc.is_fitted

\* C3: with no model loaded and at least 20 records in the window,
\* /anomalies answers 503.
C3_AnomaliesNoModelIs503 ==
    (resp.op = "anomalies" /\ ~svc.model.loaded /\ resp.found >= 20)
        => resp.status = 503

\* the table a by-id handler looks its id up in
TableOf(op) ==
    CASE op \in {"get_mission", "approve_mission", "create_mission_image"} -> missions
      [] op \in {"get_panel", "update_panel", "soft_delete_panel"} -> panels
      [] op \in {"get_inspection_result", "update_inspection_result"} ->
             inspection_results
      [] OTHER -> mission_images

ByIdOps ==
    {"get_mission", "approve_mission", "create_mission_image", "get_panel",
     "update_panel", "soft_delete_panel", "get_inspection_result",
     "update_inspection_result", "get_mission_image", "analyze_mission_image",
     "get_image_analysis_results", "delete_mission_image"}

\* C4: a handler that addresses a record by id answers 404 when no such
\* record exists and leaves every table unchanged; analyze_mission_image does
\* so also when the CV model is unavailable.
C4_MissingRecordIs404 ==
    [][(http'.op \in ByIdOps /\ http'.id \notin DOMAIN TableOf(http'.op))
          => (http'.status = 404 /\ panels' = panels /\ missions' = missions
              /\ mission_images' = mission_images
              /\ inspection_results' = inspection_results)]_vars

\* C4 witness: analyze of an unknown image answered 404 while another image
\* exists and no CV weights can be loaded.
C4_Witness ==
    /\ http.op = "analyze_mission_image"
    /\ http.status = 404
    /\ http.id \notin DOMAIN mission_images
    /\ DOMAIN mission_images # {}
    /\ ~cv_weights

\* the indices of the predictions whose reported error exceeds the threshold
Flagged(preds, threshold) == {i \in 1..Len(preds) : preds[i].error > threshold}

\* the k-th smallest element of a set of indices
KthOf(S, k) == CHOOSE i \in S : Cardinality({j \in S : j <= i}) = k

\* C5: detect_anomalies returns exactly the predictions whose reported error
\* is strictly above the threshold, in the order of the predictions; each is
\* 'high' iff its error is strictly above twice the threshold, else 'medium'.
C5_AnomaliesAreErrorsAboveThreshold ==
    (call.fn = "detect_anomalies" /\ call.predictions.some) =>
        LET preds == call.predictions.val
            out   == call.out.val
            S     == Flagged(preds, call.threshold)
        IN  /\ Len(out) = Cardinality(S)
            /\ \A k \in 1..Len(out) :
                  LET pr == preds[KthOf(S, k)]
                  IN  /\ out[k].timestamp = pr.timestamp
                      /\ out[k].error = pr.error
                      /\ out[k].error_percent = pr.error_percent
                      /\ out[k].actual_power = pr.actual_power
                      /\ out[k].predicted_power = pr.predicted_power
                      /\ out[k].details = [voltage |-> pr.voltage,
                                           current |-> pr.current,
                                           temperature |-> pr.temperature]
                      /\ out[k].severity \in {"high", "medium"}
                      /\ out[k].severity = "high" <=> pr.error > 2 * call.threshold

\* C5 witness: one call with an unflagged error equal to the threshold, a
\* 'medium' and a 'high' anomaly.
C5_Witness ==
    /\ call.fn = "detect_anomalies"
    /\ call.predictions.some
    /\ \E i \in 1..Len(call.predictions.val) :
          call.predictions.val[i].error = call.threshold
    /\ \E k \in 1..Len(call.out.val) : call.out.val[k].severity = "medium"
    /\ \E k \in 1..Len(call.out.val) : call.out.val[k].severity = "high"

\* the calls in which create_sequences ran with fitted scalers
CreateSequencesRan ==
    \/ call.fn = "create_sequences" /\ ~call.raised
    \/ call.fn \in PredictCalls /\ svc.model.loaded /\ svc.is_fitted

\* C6: with fitted scalers create_sequences returns None for n <= 20 records
\* and otherwise n - 20 windows; window i has length 20 and holds the scaled
\* features of records i .. i+19, so the last 20 records form no window.
C6_CreateSequencesWindows ==
    CreateSequencesRan =>
        LET n == Len(call.data)
        IN  /\ n <= 20 => ~call.sequences.some
            /\ n > 20 =>
                  /\ call.sequences.some
                  /\ Len(call.sequences.val) = n - 20
                  /\ \A i \in 1..(n - 20) :
                        /\ Len(call.sequences.val[i]) = 20
                        /\ \A j \in 1..20 :
                              call.sequences.val[i][j] =
                                  ScalerTransform(svc.scaler_X,
                                                  Features(call.data[i + j - 1]))

\* C6 witness: 21 records gave exactly one window.
C6_Witness ==
    /\ CreateSequencesRan
    /\ Len(call.data) = 21
    /\ call.sequences.some
    /\ Len(call.sequences.val) = 1

\* C7: the i-th result of predict_power carries the timestamp, voltage,
\* current, temperature and actual power of the record 20 places after the
\* start of the i-th window, which exists and lies outside that window; the
\* prediction is computed from the window's 20 records; there are n - 20
\* results.
C7_ResultPairedWithNextRecord ==
    (call.fn \in PredictCalls /\ call.predictions.some) =>
        LET res == call.predictions.val
            n   == Len(call.data)
        IN  /\ Len(res) = n - 20
            /\ \A i \in 1..Len(res) :
                  LET d == call.data[i + 20]
                      window == [j \in 1..20 |->
                                    ScalerTransform(svc.scaler_X,
                                                    Features(call.data[i + j - 1]))]
                  IN  /\ i + 20 <= n
                      /\ res[i].timestamp = d.timestamp
                      /\ res[i].voltage = d.voltage
                      /\ res[i].current = d.current
                      /\ res[i].temperature = d.temperature
                      /\ res[i].actual_power = d.voltage * d.current * 100
                      /\ res[i].predicted_power =
                             Round2(ScalerInverse(svc.scaler_y,
                                                  KerasPredict(svc.model, window)))

\* C7 witness: a call that returned several results.
C7_Witness ==
    /\ call.fn = "predict_power"
    /\ call.predictions.some
    /\ Len(call.predictions.val) > 20

\* C8: the feature scaler the service applies before calling the model is
\* the one the training script fitted and saved.
C8_ServiceUsesTrainingScaler ==
    (call.fn \in PredictCalls \cup {"predict_next"} /\ call.out.some
        /\ svc.model.loaded)
        => svc.scaler_X = ml_dir.scaler_X_joblib

\* the labels of the windows the model was fitted on
TrainLabels ==
    create_sequences_transform(ml_dir.scaler_X_joblib,
                               SubSeq(Csv, 1, (8 * Len(Csv)) \div 10),
                               WINDOW_SIZE).y

\* C9: the model whose output the service inverse-scales was fitted on
\* targets scaled by the target scaler.
C9_ModelTrainedOnScaledTargets ==
    (call.fn \in PredictCalls \cup {"predict_next"} /\ call.out.some
        /\ svc.model.loaded)
        => svc.model.fit_y =
               [i \in 1..Len(TrainLabels) |->
                   ScalerTransform(ml_dir.scaler_y_joblib, <<TrainLabels[i]>>)[1]]

\* C10: on the same series and with the same scaler the service builds the
\* windows the training script builds (length 20, len - 20 of them, window i
\* over rows i .. i+19) and compares prediction i with the label the
\* training script pairs with window i (row i + 20).
C10_ServiceWindowsRefineTraining ==
    (call.fn \in PredictCalls /\ call.predictions.some) =>
        LET tr == create_sequences_transform(svc.scaler_X, call.data, WINDOW_SIZE)
            t0 == train_create_sequences(call.data, WINDOW_SIZE)
        IN  /\ sequence_length = WINDOW_SIZE
            /\ call.sequences.val = tr.X
            /\ Len(call.sequences.val) = Len(t0.X)
            /\ svc.scaler_X = t0.scaler => call.sequences.val = t0.X
            /\ t0.y = tr.y
            /\ Len(call.predictions.val) = Len(tr.y)
            /\ Len(tr.y) = Len(call.data) - 20
            /\ \A i \in 1..Len(tr.y) :
                  call.predictions.val[i].actual_power = tr.y[i] * 100

\* C10 witness: predictions over a series long enough for several windows,
\* made by the anomaly detector.
C10_Witness ==
    /\ call.fn = "detect_anomalies"
    /\ call.predictions.some
    /\ Len(call.sequences.val) > 1

\* C11: with the model loaded, /predict for a panel that holds at least 20
\* records answers 200 (neither 400 nor 503), whatever was served before.
C11_PredictNeedsOnly20 ==
    (resp.op = "predict" /\ svc.model.loaded
        /\ Len(telemetry[resp.panel_id]) >= 20)
        => resp.status = 200

\* C12: with the model loaded, /predict-next for a panel that holds at least
\* 20 records answers with a prediction (200), also as the first request
\* served.
C12_PredictNextNeedsOnly20 ==
    (resp.op = "predict-next" /\ svc.model.loaded
        /\ Len(telemetry[resp.panel_id]) >= 20)
        => (resp.status = 200 /\ call.out.some)

\* C13: when analyze_mission_image has completed, with a success or an error
\* response, the temporary file it created (the latest one) no longer exists.
C13_AnalyzeRemovesTmpFile ==
    (http.op = "analyze_mission_image" /\ http.storage # "none")
        => tmp_seq \notin tmp_files

CvTmpCalls == {"detect_from_url", "detect_from_bytes"}

C18_CvServiceIsSingleton ==
    /\ cv_built <= 1
    /\ \A t \in Threads, u \in Threads :
          (threads[t].inst # 0 /\ threads[u].inst # 0)
              => threads[t].inst = threads[u].inst

\* the stored image whose mission has status COMPLETED
OfCompletedMission(image_id) ==
    /\ image_id \in DOMAIN mission_images
    /\ mission_images[image_id].mission_id \in DOMAIN missions
    /\ missions[mission_images[image_id].mission_id].status = "COMPLETED"

StorageDeleteOutcomes == {"delete:200", "delete:status", "delete:error"}

\* C15: delete_mission_image on a stored image whose mission is not COMPLETED
\* removes the image's row, leaves the other images alone and answers 200,
\* whether the storage delete succeeded, answered another status or raised.
C15_StorageFailureIsNotFatal ==
    [][(http'.op = "delete_mission_image" /\ http'.id \in DOMAIN mission_images
          /\ ~OfCompletedMission(http'.id))
          => (/\ http'.status = 200
              /\ http'.detail = "Mission image deleted"
              /\ http'.storage \in StorageDeleteOutcomes
              /\ DOMAIN mission_images' = DOMAIN mission_images \ {http'.id}
              /\ \A i \in DOMAIN mission_images' :
                    mission_images'[i] = mission_images[i])]_vars

\* C15 witness: an image was deleted although the storage request raised.
C15_Witness ==
    /\ http.op = "delete_mission_image"
    /\ http.status = 200
    /\ http.storage = "delete:error"
    /\ http.id \notin DOMAIN mission_images
    /\ http.id <= image_seq

\* C16: when the storage delete of delete_mission_image failed (exception or
\* non-200 answer), the request wrote the failure to the log.
C16_StorageFailureIsLogged ==
    (http.op = "delete_mission_image"
        /\ http.storage \in {"delete:status", "delete:error"})
        => http.log # <<>>

\* C17: delete_mission_image on an image of a COMPLETED mission answers 400,
\* leaves every table as it was and sends no request to the storage service.
C17_CompletedMissionImageIsKept ==
    [][(http'.op = "delete_mission_image" /\ OfCompletedMission(http'.id))
          => (/\ http'.status = 400
              /\ http'.storage = "none"
              /\ mission_images' = mission_images
              /\ missions' = missions
              /\ inspection_results' = inspection_results
              /\ panels' = panels)]_vars

\* C17 witness: a delete was refused and the image is still stored.
C17_Witness ==
    /\ http.op = "delete_mission_image"
    /\ http.status = 400
    /\ http.storage = "none"
    /\ OfCompletedMission(http.id)

\* the ids of the inspection results a step added
AddedResults == DOMAIN inspection_results' \ DOMAIN inspection_results

\* C19: a successful analyze_mission_image stores exactly one
\* InspectionResult per detection the CV model returned, linked to the image
\* and its mission, with panel_id null and the service's model_version;
\* its status is PASS iff the class name is 'Clean' and FAIL otherwise; the
\* response's total_detections is the number of results stored.
C19_OneResultPerDetection ==
    [][(http'.op = "analyze_mission_image" /\ http'.status = 200) =>
          LET dets == cv_call'.out
              body == http'.body
              img  == mission_images[http'.id]
          IN  /\ cv_call'.fn = "detect"
              /\ cv_call'.raised = "none"
              /\ Cardinality(AddedResults) = Len(dets)
              /\ body.total_detections = Len(dets)
              /\ Len(body.detections) = Len(dets)
              /\ {body.detections[k].inspection_id : k \in 1..Len(dets)} = AddedResults
              /\ \A i \in DOMAIN inspection_results :
                    inspection_results'[i] = inspection_results[i]
              /\ \A k \in 1..Len(dets) :
                    LET row == inspection_results'[body.detections[k].inspection_id]
                    IN  /\ row.mission_image_id = http'.id
                        /\ row.mission_id = img.mission_id
                        /\ row.panel_id = 0
                        /\ row.model_version = cv_service'.model_version
                        /\ row.defect_type = dets[k].class_name
                        /\ row.confidence = dets[k].confidence
                        /\ row.bbox = dets[k].bbox
                        /\ row.status \in {"PASS", "FAIL"}
                        /\ row.status = "PASS" <=> dets[k].class_name = "Clean"
                        /\ body.detections[k].status = row.status
                        /\ body.detections[k].class_name = row.defect_type]_vars

\* C19 witness: an analysis stored two failures for an image that already had
\* a PASS result from an earlier analysis.
C19_Witness ==
    /\ http.op = "analyze_mission_image"
    /\ http.status = 200
    /\ http.body.total_detections = 2
    /\ \A k \in 1..2 :
          inspection_results[http.body.detections[k].inspection_id].status = "FAIL"
    /\ \E i \in DOMAIN inspection_results :
          /\ inspection_results[i].status = "PASS"
          /\ inspection_results[i].mission_image_id = http.id

\* C20: an analyze_mission_image call that ends with an error response (404,
\* 503, 500) leaves the stored inspection results exactly as they were.
C20_ErrorStoresNothing ==
    [][(http'.op = "analyze_mission_image" /\ http'.status # 200)
          => (/\ http'.status \in {404, 503, 500}
              /\ inspection_results' = inspection_results)]_vars

\* C20 witness: the detection failed on a fetched image that has results
\* from an earlier analysis.
C20_Witness ==
    /\ http.op = "analyze_mission_image"
    /\ http.status = 500
    /\ http.storage = "get:200"
    /\ \E i \in DOMAIN inspection_results :
          inspection_results[i].mission_image_id = http.id

\* C21: an image that has belonged to a mission while the mission's status
\* was COMPLETED is still stored, whatever requests (approve_mission
\* included) were served since.
C21_CompletedMissionImageStaysForGood ==
    \A image_id \in completed_images : image_id \in DOMAIN mission_images

\* the status and body the three handlers build from the answer of the
\* service s to telemetry_data
ResponseOf(s, op, telemetry_data, threshold) ==
    CASE op = "predict" ->
           LET r == predict_power(s, telemetry_data)
           IN  [status |-> IF r.out.some THEN 200 ELSE 503,
                body |-> IF r.out.some THEN PredictBody(r.out.val) ELSE <<>>]
      [] op = "anomalies" ->
           LET r == detect_anomalies(s, telemetry_data, threshold)
           IN  [status |-> 200,
                body |-> [total_records_analyzed |-> Len(telemetry_data),
                          anomalies_detected |-> Len(r.out),
                          threshold |-> threshold,
                          anomalies |-> r.out]]
      [] op = "predict-next" ->
           LET r == predict_next(s, telemetry_data)
           IN  [status |-> IF r.out.some THEN 200 ELSE 503,
                body |-> IF r.out.some THEN [prediction |-> r.out.val] ELSE <<>>]

\* C22: a response of /telemetry/predict, /anomalies or /predict-next for a
\* panel is the one a service that has served no earlier request gives for
\* the same records and parameters.  The panels looked at have fewer than 100
\* rows: no request for such a panel fits the scalers, so the service such a
\* request meets differs from a new one only by requests for other panels.
C22_ResponseIndependentOfOtherPanels ==
    (/\ resp.op \in MlOps
     /\ resp.status # 400
     /\ Len(telemetry[resp.panel_id]) < MinFitRecords)
        => LET alone == ResponseOf(NewService(ml_dir), resp.op, call.data,
                                   call.threshold)
           IN  /\ resp.status = alone.status
               /\ resp.status = 200 => resp.body = alone.body

\* the datasets a /telemetry/predict request can hand to fit_scalers
FitDatasets ==
    {ToDicts(Reverse(QueryRecent(telemetry[p], limit))) :
        p \in Panels, limit \in WorkerLimits}

\* C23: whenever is_fitted is true, scaler_X and scaler_y of the shared
\* service hold the statistics of one and the same dataset, also when two
\* threads that both found is_fitted false run fit_scalers at the same time.
C23_ScalersFittedOnOneDataset ==
    svc.is_fitted =>
        \E d \in FitDatasets :
            /\ svc.scaler_X = ScalerFit(FeatureCols(d))
            /\ svc.scaler_y = ScalerFit(PowerCol(d))

\* the response is a successful one of /telemetry/predict
PredictSucceeded == resp.op = "predict" /\ resp.status = 200

\* C24: a successful /telemetry/predict response has total_predictions equal
\* to the number of records used minus 20, which is the number of results the
\* service returned and at least one; 'predictions' holds the last
\* min(10, total_predictions) of them, oldest first, ending with the newest
\* record; avg_error, max_error and avg_error_percent are taken over all the
\* results of the service, not over the returned ones.
C24_PredictSummaryOverAllPredictions ==
    PredictSucceeded =>
        LET all   == call.out.val
            n     == Len(all)
            shown == resp.body.predictions
            k     == Len(shown)
        IN  /\ call.out.some
            /\ n >= 1
            /\ resp.body.total_predictions = n
            /\ n = resp.found - 20
            /\ n = Len(call.data) - 20
            /\ k = (IF n < 10 THEN n ELSE 10)
            /\ \A i \in 1..k : shown[i] = all[n - k + i]
            /\ \A i \in 1..(k - 1) :
                  shown[i].timestamp[2] < shown[i + 1].timestamp[2]
            /\ shown[k].timestamp = call.data[Len(call.data)].timestamp
            /\ resp.body.summary.avg_error =
                  RoundAvg2(SumSeq([i \in 1..n |-> all[i].error]), n)
            /\ resp.body.summary.avg_error_percent =
                  RoundAvg2(SumSeq([i \in 1..n |-> all[i].error_percent]), n)
            /\ \A i \in 1..n : all[i].error <= resp.body.summary.max_error
            /\ \E i \in 1..n : all[i].error = resp.body.summary.max_error

\* C24 witness: a successful response with more than ten predictions, ten of
\* them returned, whose avg_error is not the average of the returned ten.
C24_Witness ==
    /\ PredictSucceeded
    /\ resp.body.total_predictions > 10
    /\ Len(resp.body.predictions) = 10
    /\ resp.body.summary.avg_error #
          RoundAvg2(SumSeq([i \in 1..10 |-> resp.body.predictions[i].error]), 10)

====
